---- MODULE Spec2Model ----
(***************************************************************************)
(* Model of the image-toolkit dataset engine (MoveToEx/image-toolkit,      *)
(* src-tauri/src-python/image_toolkit).                                    *)
(*                                                                         *)
(* Text is a sequence of one-character strings.  A path is a record        *)
(* [stem, ext] as os.path.splitext returns it; all files live in the one   *)
(* opened folder.  The file system `fs` is a function from the paths that  *)
(* exist to their content: a text for a sidecar, a size <<w, h>> for an    *)
(* image.                                                                  *)
(***************************************************************************)
EXTENDS Integers, Sequences, FiniteSets, TLC

VARIABLES
    caption_prefix,  \* AppState.caption_prefix
    items,           \* AppState.items
    fs,              \* the folder on disk
    last,            \* history: the command that ran last and how it ended
    commands,        \* history: the number of commands run so far
    s,               \* a function under test: the argument
    result,          \* a function under test: the returned value
    called           \* a function under test: TRUE once it has returned

vars == <<caption_prefix, items, fs, last, commands, s, result, called>>

session == <<caption_prefix, items, fs>>

-----------------------------------------------------------------------------
(* Bounds *)

\* longest argument sequence and longest argument list of get_common_prefix
MaxLen == 2
MaxSeqs == 3

\* most items a split may leave in the list, and most `_n` suffixes a split
\* may stack on a file name
MaxItems == 3
MaxDepth == 1

\* most commands in one session
MaxCommands == 3

\* longest sidecar text of the folders of two captioned images
MaxText == 2

\* longest side of the images the rect tool draws on
MaxSide == 2

-----------------------------------------------------------------------------
(* Python built-ins on sequences and strings *)

Min(a, b) == IF a <= b THEN a ELSE b

Max(a, b) == IF a >= b THEN a ELSE b

\* x in seq
In(x, sq) == \E i \in 1..Len(sq) : sq[i] = x

\* s.startswith(p)
StartsWith(t, p) == Len(p) <= Len(t) /\ SubSeq(t, 1, Len(p)) = p

\* s.removeprefix(p)
RemovePrefix(t, p) == IF StartsWith(t, p) THEN SubSeq(t, Len(p) + 1, Len(t)) ELSE t

\* s.strip(): the only whitespace of the alphabet is the blank
RECURSIVE LStrip(_)
LStrip(t) == IF t # <<>> /\ Head(t) = " " THEN LStrip(Tail(t)) ELSE t

RECURSIVE RStrip(_)
RStrip(t) == IF t # <<>> /\ t[Len(t)] = " " THEN RStrip(SubSeq(t, 1, Len(t) - 1)) ELSE t

Strip(t) == RStrip(LStrip(t))

\* s.split(','): the fields between commas, always at least one field
RECURSIVE SplitAcc(_, _, _)
SplitAcc(t, cur, acc) ==
    IF t = <<>> THEN Append(acc, cur)
    ELSE IF Head(t) = "," THEN SplitAcc(Tail(t), <<>>, Append(acc, cur))
    ELSE SplitAcc(Tail(t), Append(cur, Head(t)), acc)

SplitComma(t) == SplitAcc(t, <<>>, <<>>)

\* ', '.join(tags)
RECURSIVE Join(_)
Join(tags) ==
    IF tags = <<>> THEN <<>>
    ELSE IF Len(tags) = 1 THEN tags[1]
    ELSE tags[1] \o <<",", " ">> \o Join(Tail(tags))

\* the tags without the `.strip()`
UnstrippedTags(t) == SplitComma(t)

\* seq(text.split(',')).map(lambda x: x.strip()).to_list()
StrippedTags(t) == LET f == SplitComma(t) IN [i \in 1..Len(f) |-> Strip(f[i])]

-----------------------------------------------------------------------------
(* Prefix algebra: utils.py *)

RECURSIVE PairwiseLoop(_, _, _, _)
PairwiseLoop(a, b, i, acc) ==
    IF i > Min(Len(a), Len(b)) THEN acc
    ELSE IF a[i] = b[i] THEN PairwiseLoop(a, b, i + 1, Append(acc, a[i]))
    ELSE acc

\* the loop without its `break`: every position where a and b agree is kept
RECURSIVE PairwiseLoopNoBreak(_, _, _, _)
PairwiseLoopNoBreak(a, b, i, acc) ==
    IF i > Min(Len(a), Len(b)) THEN acc
    ELSE PairwiseLoopNoBreak(a, b, i + 1, IF a[i] = b[i] THEN Append(acc, a[i]) ELSE acc)

pairwise_common_prefix_no_break(a, b) == PairwiseLoopNoBreak(a, b, 1, <<>>)

pairwise_common_prefix(a, b) == PairwiseLoop(a, b, 1, <<>>)

RECURSIVE CommonPrefixLoop(_, _, _, _)
CommonPrefixLoop(sq, i, flg, res) ==
    IF i > Len(sq) THEN res
    ELSE IF flg THEN CommonPrefixLoop(sq, i + 1, FALSE, sq[i])
    ELSE CommonPrefixLoop(sq, i + 1, FALSE, pairwise_common_prefix(res, sq[i]))

\* the fold with `flg` never cleared: every input replaces the result
RECURSIVE CommonPrefixLoopFlagKept(_, _, _)
CommonPrefixLoopFlagKept(sq, i, res) ==
    IF i > Len(sq) THEN res ELSE CommonPrefixLoopFlagKept(sq, i + 1, sq[i])

get_common_prefix_flag_kept(sq) == CommonPrefixLoopFlagKept(sq, 1, <<>>)

get_common_prefix(sq) == CommonPrefixLoop(sq, 1, TRUE, <<>>)

-----------------------------------------------------------------------------
(* get_common_prefix as a function under test *)

NoCommand == [op |-> "none", ok |-> TRUE, chain |-> ""]

Elems == {"a", "b"}

SeqsUpTo(S, m) == UNION {[1..k -> S] : k \in 0..m}

Args == SeqsUpTo(SeqsUpTo(Elems, MaxLen), MaxSeqs)

InitPrefix ==
    /\ s \in Args
    /\ result = <<>>
    /\ called = FALSE
    /\ caption_prefix = <<>>
    /\ items = <<>>
    /\ fs = <<>>
    /\ last = NoCommand
    /\ commands = 0

CallGetCommonPrefix ==
    /\ ~called
    /\ result' = get_common_prefix(s)
    /\ called' = TRUE
    /\ UNCHANGED <<s, caption_prefix, items, fs, last, commands>>

NextPrefix == CallGetCommonPrefix

SpecPrefix == InitPrefix /\ [][NextPrefix]_vars

-----------------------------------------------------------------------------
(* Paths and files *)

P(stem, ext) == [stem |-> stem, ext |-> ext]

IMAGE_EXT == {".png", ".jpg", ".jpeg", ".webp", ".gif"}

IsImage(path) == path.ext \in IMAGE_EXT

Exists(f, path) == path \in DOMAIN f

\* open(path, 'w').write(content), Image.save(path), Path.touch()
WriteFile(f, path, content) ==
    [x \in DOMAIN f \cup {path} |-> IF x = path THEN content ELSE f[x]]

\* Path.unlink() of a file that exists
Unlink(f, path) == [x \in DOMAIN f \ {path} |-> f[x]]

\* list.insert(k, x) and list.pop(k), k counted from 0 as in Python
InsertAt(sq, k, x) ==
    LET j == Min(k, Len(sq)) IN SubSeq(sq, 1, j) \o <<x>> \o SubSeq(sq, j + 1, Len(sq))

PopAt(sq, k) == SubSeq(sq, 1, k) \o SubSeq(sq, k + 2, Len(sq))

\* the loop `for i, it in enumerate(state.items): if it.image == Path(body.current)`;
\* the index of the first match counted from 0, or -1 when there is none
Lookup(its, path) ==
    IF \E i \in 1..Len(its) : its[i].image = path
    THEN (CHOOSE i \in 1..Len(its) :
              /\ its[i].image = path
              /\ \A j \in 1..(i - 1) : its[j].image # path) - 1
    ELSE -1

DatasetItem(image, caption, caption_str) ==
    [image |-> image, caption |-> caption, caption_str |-> caption_str]

\* what a command leaves behind: the AppState, the disk, and whether it
\* returned (ok) or raised
St(p, its, f) == [p |-> p, it |-> its, fs |-> f]

Returned(st) == [st |-> st, ok |-> TRUE]

Raised(st) == [st |-> st, ok |-> FALSE]

-----------------------------------------------------------------------------
(* Folder import: __init__.py select_folder *)

\* the sidecar of an image and the disk after resolving it
CaptionPath(f, img) ==
    LET c1 == P(img.stem, ".txt")
        c2 == P(img.stem \o img.ext, ".txt")
        c3 == P(img.stem, "")
    IN  IF Exists(f, c1) THEN [path |-> c1, fs |-> f]
        ELSE IF Exists(f, c2) THEN [path |-> c2, fs |-> f]
        ELSE IF Exists(f, c3) THEN [path |-> c3, fs |-> f]
        ELSE [path |-> c1, fs |-> WriteFile(f, c1, <<>>)]

\* the loop over p.glob('**/*'), `order` being the order the glob yields the images in
RECURSIVE ScanLoop(_, _, _, _)
ScanLoop(order, i, its, f) ==
    IF i > Len(order) THEN [it |-> its, fs |-> f]
    ELSE LET c == CaptionPath(f, order[i])
         IN  ScanLoop(order, i + 1,
                      Append(its, DatasetItem(order[i], c.path, c.fs[c.path])), c.fs)

SelectFolderRun(f, order) ==
    LET scan == ScanLoop(order, 1, <<>>, f)
        prefix == get_common_prefix([i \in 1..Len(scan.it) |-> scan.it[i].caption_str])
    IN  St(prefix,
           [i \in 1..Len(scan.it) |->
               [scan.it[i] EXCEPT !.caption_str = RemovePrefix(@, prefix)]],
           scan.fs)

-----------------------------------------------------------------------------
(* Tool engine: tools/__init__.py.  An image on disk is its size <<w, h>>;  *)
(* pixel values are not modelled.  idx counts from 0 as in Python.          *)

\* the sizes of img.crop(...) for each mode, in the order of `cropped`
Cropped(size, mode, pt) ==
    LET width == size[1]
        height == size[2]
    IN  IF mode = "cross"
        THEN << <<pt[1], pt[2]>>, <<width - (pt[1] + 1), pt[2]>>,
                <<pt[1], height - (pt[2] + 1)>>,
                <<width - (pt[1] + 1), height - (pt[2] + 1)>> >>
        ELSE IF mode = "horizontal"
        THEN << <<pt[1], height>>, <<width - (pt[1] + 1), height>> >>
        ELSE << <<width, pt[2]>>, <<width, height - (pt[2] + 1)>> >>

\* stem + f'_{i + 1}'
PieceStem(stem, i) == stem \o "_" \o ToString(i + 1)

\* the loop `for i, it in enumerate(cropped)`
RECURSIVE SplitLoop(_, _, _, _, _)
SplitLoop(st, idx, item, cropped, i) ==
    IF i >= Len(cropped) THEN st
    ELSE LET fn == P(PieceStem(item.image.stem, i), item.image.ext)
             txt == P(PieceStem(item.image.stem, i), ".txt")
             f1 == WriteFile(st.fs, fn, cropped[i + 1])
             f2 == WriteFile(f1, txt, st.p \o item.caption_str)
         IN  SplitLoop(St(st.p,
                          InsertAt(st.it, idx + 1 + i, DatasetItem(fn, txt, item.caption_str)),
                          f2),
                       idx, item, cropped, i + 1)

SplitToolRun(st, idx, tool) ==
    LET item == st.it[idx + 1]
    IN  IF ~Exists(st.fs, item.image) THEN Raised(st)             \* Image.open
        ELSE LET st1 == SplitLoop(st, idx, item,
                                  Cropped(st.fs[item.image], tool.mode, tool.point), 0)
                 f1 == Unlink(st1.fs, item.image)
             IN  IF ~Exists(f1, item.caption)                     \* item.caption.unlink()
                 THEN Raised(St(st1.p, st1.it, f1))
                 ELSE Returned(St(st1.p, PopAt(st1.it, idx), Unlink(f1, item.caption)))

\* the loop `for it in seq(other.caption_str.split(',')).map(...)`
RECURSIVE MergeTags(_, _)
MergeTags(caption, other) ==
    IF other = <<>> THEN caption
    ELSE MergeTags(IF In(Head(other), caption) THEN caption ELSE Append(caption, Head(other)),
                   Tail(other))

\* the size of the canvas `out`
ConcatSize(size, other_size, mode) ==
    IF mode = "horizontal"
    THEN <<other_size[1] + size[1], Max(other_size[2], size[2])>>
    ELSE <<Max(other_size[1], size[1]), other_size[2] + size[2]>>

ConcatToolRun(st, idx, tool) ==
    LET item == st.it[idx + 1]
        other_idx == Lookup(st.it, tool.image)
    IN  IF ~Exists(st.fs, item.image) THEN Raised(st)             \* Image.open
        ELSE IF other_idx = -1 THEN Raised(st)                    \* where(...)
        ELSE LET other == st.it[other_idx + 1]
             IN  IF ~Exists(st.fs, other.image) THEN Raised(st)   \* Image.open
                 ELSE LET f1 == WriteFile(st.fs, item.image,
                                          ConcatSize(st.fs[item.image], st.fs[other.image],
                                                     tool.mode))
                      IN  IF ~Exists(f1, other.caption)           \* other.caption.unlink()
                          THEN Raised(St(st.p, st.it, f1))
                          ELSE LET f2 == Unlink(Unlink(f1, other.caption), other.image)
                                   caption == Join(MergeTags(StrippedTags(item.caption_str),
                                                             StrippedTags(other.caption_str)))
                                   f3 == WriteFile(f2, item.caption, caption)
                                   its == [st.it EXCEPT ![idx + 1].caption_str = caption]
                               IN  Returned(St(st.p, PopAt(its, other_idx), f3))

\* view does nothing; brush stands for the tools that only repaint the item's image
\* in place (brush, rect): the file is rewritten with its size unchanged
ToolRun(st, idx, tool) ==
    IF tool.id = "view" THEN Returned(st)
    ELSE IF tool.id = "brush"
    THEN IF Exists(st.fs, st.it[idx + 1].image) THEN Returned(st) ELSE Raised(st)
    ELSE IF tool.id = "split" THEN SplitToolRun(st, idx, tool)
    ELSE ConcatToolRun(st, idx, tool)

-----------------------------------------------------------------------------
(* The save command: __init__.py save *)

\* `for it in state.items: open(it.caption, 'w').write(prefix + it.caption_str)`
RECURSIVE WriteAll(_, _, _, _)
WriteAll(f, its, p, i) ==
    IF i > Len(its) THEN f
    ELSE WriteAll(WriteFile(f, its[i].caption, p \o its[i].caption_str), its, p, i + 1)

SetPrefix(st, p) ==
    IF p # st.p THEN St(p, st.it, WriteAll(st.fs, st.it, p, 1)) ELSE st

\* the item's sidecar written without the shared prefix
SetCaptionWithoutPrefix(st, idx, caption) ==
    IF caption # st.it[idx + 1].caption_str
    THEN St(st.p, [st.it EXCEPT ![idx + 1].caption_str = caption],
            WriteFile(st.fs, st.it[idx + 1].caption, caption))
    ELSE st

SetCaption(st, idx, caption) ==
    IF caption # st.it[idx + 1].caption_str
    THEN St(st.p, [st.it EXCEPT ![idx + 1].caption_str = caption],
            WriteFile(st.fs, st.it[idx + 1].caption, st.p \o caption))
    ELSE st

SaveRun(st, body) ==
    LET idx == Lookup(st.it, body.current)
    IN  IF idx = -1 THEN Returned(st)
        ELSE ToolRun(SetCaption(SetPrefix(st, body.caption_prefix), idx, body.caption),
                     idx, body.tool)

-----------------------------------------------------------------------------
(* Batch operations: batch_operations.py *)

\* sub(r'(?<!\\)\(', r'\(', t) for ch = "(", sub(r'(?<!\\)\)', r'\)', t) for ch = ")"
RECURSIVE EscapeLoop(_, _, _)
EscapeLoop(t, ch, i) ==
    IF i > Len(t) THEN <<>>
    ELSE (IF t[i] = ch /\ (i = 1 \/ t[i - 1] # "\\") THEN <<"\\", ch>> ELSE <<t[i]>>)
         \o EscapeLoop(t, ch, i + 1)

EscapeText(t) == EscapeLoop(EscapeLoop(t, "(", 1), ")", 1)

\* sub(r'\\\(', r'(', t) for ch = "(", sub(r'\\\)', r')', t) for ch = ")"
RECURSIVE UnescapeLoop(_, _, _)
UnescapeLoop(t, ch, i) ==
    IF i > Len(t) THEN <<>>
    ELSE IF t[i] = "\\" /\ i < Len(t) /\ t[i + 1] = ch
    THEN <<ch>> \o UnescapeLoop(t, ch, i + 2)
    ELSE <<t[i]>> \o UnescapeLoop(t, ch, i + 1)

\* only the opening parenthesis unescaped
UnescapeTextOpenOnly(t) == UnescapeLoop(t, "(", 1)

UnescapeText(t) == UnescapeLoop(UnescapeLoop(t, "(", 1), ")", 1)

\* the loop over the items of EscapeOperation.run (escape = TRUE) and of
\* UnescapeOperation.run (escape = FALSE)
RECURSIVE RewriteLoop(_, _, _)
RewriteLoop(st, i, escape) ==
    IF i > Len(st.it) THEN st
    ELSE LET str == IF escape THEN EscapeText(st.it[i].caption_str)
                    ELSE UnescapeText(st.it[i].caption_str)
         IN  RewriteLoop(St(st.p, [st.it EXCEPT ![i].caption_str = str],
                            WriteFile(st.fs, st.it[i].caption, st.p \o str)),
                         i + 1, escape)

EscapeRun(st) == Returned(RewriteLoop(St(EscapeText(st.p), st.it, st.fs), 1, TRUE))

UnescapeRun(st) == Returned(RewriteLoop(St(UnescapeText(st.p), st.it, st.fs), 1, FALSE))

\* the tail of the loop body of the tag operations: join the list `result` and
\* rewrite the item at i if the text differs
StoreTags(st, i, res) ==
    LET str == Join(res)
    IN  IF str # st.it[i].caption_str
        THEN St(st.p, [st.it EXCEPT ![i].caption_str = str],
                WriteFile(st.fs, st.it[i].caption, st.p \o str))
        ELSE st

RECURSIVE Deduplicate(_, _, _)
Deduplicate(tags, prefix_tags, res) ==
    IF tags = <<>> THEN res
    ELSE Deduplicate(Tail(tags), prefix_tags,
                     IF ~In(Head(tags), res) /\ ~In(Head(tags), prefix_tags)
                     THEN Append(res, Head(tags)) ELSE res)

RECURSIVE DeduplicateLoop(_, _, _)
DeduplicateLoop(st, i, prefix_tags) ==
    IF i > Len(st.it) THEN st
    ELSE DeduplicateLoop(
             StoreTags(st, i, Deduplicate(StrippedTags(st.it[i].caption_str), prefix_tags, <<>>)),
             i + 1, prefix_tags)

DeduplicateTagsRun(st) == Returned(DeduplicateLoop(st, 1, StrippedTags(st.p)))

RECURSIVE Replace(_, _, _)
Replace(tags, find, replace) ==
    IF tags = <<>> THEN <<>>
    ELSE (IF Head(tags) = find
          THEN (IF Len(replace) = 0 THEN <<>> ELSE <<replace>>)
          ELSE <<Head(tags)>>)
         \o Replace(Tail(tags), find, replace)

RECURSIVE ReplaceLoop(_, _, _, _)
ReplaceLoop(st, i, find, replace) ==
    IF i > Len(st.it) THEN st
    ELSE ReplaceLoop(
             StoreTags(st, i, Replace(StrippedTags(st.it[i].caption_str), find, replace)),
             i + 1, find, replace)

ReplaceTagsRun(st, find, replace) == Returned(ReplaceLoop(st, 1, find, replace))

\* re: the tree a pattern compiles to.  The patterns are written with
\* literals, `.`, `^`, `$`, the postfix `*` and `?`, and `|`, which binds last
ParseAtom(pattern, i) ==
    LET c == pattern[i]
    IN  [re |-> IF c = "." THEN [k |-> "any"]
                ELSE IF c = "^" THEN [k |-> "bol"]
                ELSE IF c = "$" THEN [k |-> "eol"]
                ELSE [k |-> "chr", c |-> c],
         i |-> i + 1]

ParseRep(pattern, i) ==
    LET a == ParseAtom(pattern, i)
    IN  IF a.i <= Len(pattern) /\ pattern[a.i] = "*"
        THEN [re |-> [k |-> "star", a |-> a.re], i |-> a.i + 1]
        ELSE IF a.i <= Len(pattern) /\ pattern[a.i] = "?"
        THEN [re |-> [k |-> "opt", a |-> a.re], i |-> a.i + 1]
        ELSE a

RECURSIVE ParseCat(_, _)
ParseCat(pattern, i) ==
    IF i > Len(pattern) \/ pattern[i] = "|" THEN [re |-> [k |-> "eps"], i |-> i]
    ELSE LET a == ParseRep(pattern, i)
             b == ParseCat(pattern, a.i)
         IN  [re |-> [k |-> "cat", a |-> a.re, b |-> b.re], i |-> b.i]

RECURSIVE ParseAlt(_, _)
ParseAlt(pattern, i) ==
    LET a == ParseCat(pattern, i)
    IN  IF a.i <= Len(pattern)
        THEN LET b == ParseAlt(pattern, a.i + 1)
             IN  [re |-> [k |-> "alt", a |-> a.re, b |-> b.re], i |-> b.i]
        ELSE a

\* the positions at which a match of `re` that starts at position i of `tag`
\* may end (positions count the characters already passed)
RECURSIVE Ends(_, _, _)
RECURSIVE StarEnds(_, _, _)
Ends(re, tag, i) ==
    IF re.k = "eps" THEN {i}
    ELSE IF re.k = "chr" THEN (IF i < Len(tag) /\ tag[i + 1] = re.c THEN {i + 1} ELSE {})
    ELSE IF re.k = "any" THEN (IF i < Len(tag) THEN {i + 1} ELSE {})
    ELSE IF re.k = "bol" THEN (IF i = 0 THEN {i} ELSE {})
    ELSE IF re.k = "eol" THEN (IF i = Len(tag) THEN {i} ELSE {})
    ELSE IF re.k = "opt" THEN {i} \cup Ends(re.a, tag, i)
    ELSE IF re.k = "star" THEN StarEnds(re.a, tag, {i})
    ELSE IF re.k = "cat" THEN UNION {Ends(re.b, tag, j) : j \in Ends(re.a, tag, i)}
    ELSE Ends(re.a, tag, i) \cup Ends(re.b, tag, i)

StarEnds(re, tag, reached) ==
    LET more == reached \cup UNION {Ends(re, tag, j) : j \in reached}
    IN  IF more = reached THEN reached ELSE StarEnds(re, tag, more)

\* re.match(pattern, tag): some match starts at the beginning of the tag
rmatch(pattern, tag) == Ends(ParseAlt(pattern, 1).re, tag, 0) # {}

\* pattern.startswith('^') and pattern.endswith('$')
Delimited(pattern) ==
    Len(pattern) > 0 /\ pattern[1] = "^" /\ pattern[Len(pattern)] = "$"

\* the loop `for pattern in self.tags` of RemoveTagsOperation.run, from the k-th
RECURSIVE rm(_, _, _)
rm(patterns, tag, k) ==
    IF k > Len(patterns) THEN FALSE
    ELSE IF Delimited(patterns[k])
    THEN (IF rmatch(patterns[k], tag) THEN TRUE ELSE rm(patterns, tag, k + 1))
    ELSE (IF patterns[k] = tag THEN TRUE ELSE rm(patterns, tag, k + 1))

\* the loop `for tag in tags` of RemoveTagsOperation.run
RECURSIVE Remove(_, _)
Remove(tags, patterns) ==
    IF tags = <<>> THEN <<>>
    ELSE (IF rm(patterns, Head(tags), 1) THEN <<>> ELSE <<Head(tags)>>)
         \o Remove(Tail(tags), patterns)

RECURSIVE RemoveLoop(_, _, _)
RemoveLoop(st, i, patterns) ==
    IF i > Len(st.it) THEN st
    ELSE RemoveLoop(StoreTags(st, i, Remove(StrippedTags(st.it[i].caption_str), patterns)),
                    i + 1, patterns)

RemoveTagsRun(st, patterns) == Returned(RemoveLoop(st, 1, patterns))

pillarboxed == <<"p", "i", "l", "l", "a", "r", "b", "o", "x", "e", "d">>

letterboxed == <<"l", "e", "t", "t", "e", "r", "b", "o", "x", "e", "d">>

Abs(x) == IF x < 0 THEN -x ELSE x

\* (int(width * ratio), int(height * ratio)) with ratio = min(W / width, H / height)
Scaled(size, W, H) ==
    IF W * size[2] <= H * size[1]
    THEN <<W, (size[2] * W) \div size[1]>>
    ELSE <<(size[1] * H) \div size[2], H>>

\* the body of the loop of AlignResolutionOperation.run for the item at i
AlignItem(st, i, op) ==
    LET it == st.it[i]
        size == Scaled(st.fs[it.image], op.width, op.height)
        tags == StrippedTags(st.p \o it.caption_str)
        pillar == /\ Abs(size[1] - op.width) > Abs(size[2] - op.height)
                  /\ op.box_tag
                  /\ ~In(pillarboxed, tags)
        letter == /\ Abs(size[2] - op.height) > Abs(size[1] - op.width)
                  /\ op.box_tag
                  /\ ~In(letterboxed, tags)
        str == IF letter THEN Join(tags) \o <<",", " ">> \o letterboxed
               ELSE IF pillar THEN Join(tags) \o <<",", " ">> \o pillarboxed
               ELSE it.caption_str
        f1 == IF pillar \/ letter THEN WriteFile(st.fs, it.caption, str) ELSE st.fs
    IN  St(st.p, [st.it EXCEPT ![i].caption_str = str], WriteFile(f1, it.image, <<op.width, op.height>>))

RECURSIVE AlignLoop(_, _, _)
AlignLoop(st, i, op) ==
    IF i > Len(st.it) THEN Returned(st)
    ELSE IF ~Exists(st.fs, st.it[i].image) THEN Raised(st)        \* Image.open
    ELSE IF \E k \in 1..2 : Scaled(st.fs[st.it[i].image], op.width, op.height)[k] < 1
    THEN Raised(st)                                               \* img.resize
    ELSE AlignLoop(AlignItem(st, i, op), i + 1, op)

AlignResolutionRun(st, op) == AlignLoop(st, 1, op)

-----------------------------------------------------------------------------
(* The session: the folder on disk at start, the commands and their inputs *)

Txt_a_b == <<"a", ",", " ", "(", "b", ")">>      \* "a, (b)"
Txt_aba == <<"a", ",", " ", "b", ",", " ", "a">> \* "a, b, a"
Txt_bab == <<"b", ",", " ", "a", ",", "b">>      \* "b, a,b"
Txt_esc == <<"\\", "(", "b">>                    \* "\(b"
Txt_pre == <<"b", ",", " ">>                     \* "b, "

InitSize == <<3, 3>>

Folder(images, sidecars) ==
    [x \in images \cup DOMAIN sidecars |-> IF x \in images THEN InitSize ELSE sidecars[x]]

\* the folders the session may start on: two images that share the sidecar
\* a.txt, an image next to one named like its first split piece, a lone
\* image without a sidecar, and a lone image with the sidecar a.png.txt
InitFolders ==
    { Folder({P("a", ".png"), P("a", ".jpg")}, (P("a", ".txt") :> Txt_a_b)),
      Folder({P("a", ".png"), P("a_1", ".png")},
             (P("a", ".txt") :> Txt_a_b) @@ (P("a_1", ".txt") :> Txt_aba)),
      Folder({P("a", ".png")}, <<>>),
      Folder({P("a", ".png")}, (P("a.png", ".txt") :> Txt_esc)) }

CaptionInputs == {Txt_bab}

PrefixInputs == {Txt_pre}

FindInputs == {<<"a">>}

ReplaceInputs == {<<>>, <<"b">>}

AlignTargets == {<<4, 2>>, <<3, 3>>}

ConcatModes == {"horizontal", "vertical"}

StalePath == P("zz", ".png")

Orders(S) == {sq \in [1..Cardinality(S) -> S] : \A i, j \in 1..Cardinality(S) : sq[i] = sq[j] => i = j}

Depth(path) == (Len(path.stem) - 1) \div 2

\* the split point the UI sends: the middle of the image, every piece being at
\* least one pixel wide and high
SplitPoints(size, mode) ==
    { pt \in (0..size[1]) \X (0..size[2]) :
        /\ mode \in {"cross", "horizontal"} =>
               (pt[1] >= 1 /\ pt[1] <= size[1] - 2 /\ pt[1] = (size[1] - 1) \div 2)
        /\ mode \in {"cross", "vertical"} =>
               (pt[2] >= 1 /\ pt[2] <= size[2] - 2 /\ pt[2] = (size[2] - 1) \div 2)
        /\ mode = "horizontal" => pt[2] = 0
        /\ mode = "vertical" => pt[1] = 0 }

ItemImages == {items[i].image : i \in 1..Len(items)}

\* the tools the UI can send for the item at `current`
Tools(current) ==
    {[id |-> "view"], [id |-> "brush"]}
    \cup UNION { { [id |-> "split", mode |-> m, point |-> pt] :
                     pt \in IF current \in DOMAIN fs THEN SplitPoints(fs[current], m)
                            ELSE {<<1, 1>>} } :
                 m \in {"cross", "horizontal", "vertical"} }
    \cup { [id |-> "concat", mode |-> m, image |-> img] :
             m \in ConcatModes, img \in ItemImages \cup {StalePath} }

Cur == St(caption_prefix, items, fs)

\* history: the command follows a deduplicate_tags ("twice") or an
\* escape_parentheses ("inverse") of the same kind of pair
Chain(op) ==
    IF op = "deduplicate_tags" /\ last.op = "deduplicate_tags" THEN "twice"
    ELSE IF op = "unescape_parentheses" /\ last.op = "escape_parentheses" THEN "inverse"
    ELSE ""

\* a command ran and left r behind
Command(op, r) ==
    /\ commands < MaxCommands
    /\ commands' = commands + 1
    /\ caption_prefix' = r.st.p
    /\ items' = r.st.it
    /\ fs' = r.st.fs
    /\ last' = [op |-> op, ok |-> r.ok, chain |-> Chain(op)]
    /\ UNCHANGED <<s, result, called>>

Init ==
    /\ caption_prefix = <<>>
    /\ items = <<>>
    /\ fs \in InitFolders
    /\ last = NoCommand
    /\ commands = 0
    /\ s = <<>>
    /\ result = <<>>
    /\ called = FALSE

SelectFolder ==
    \E order \in Orders({x \in DOMAIN fs : IsImage(x)}) :
        Command("select_folder", Returned(SelectFolderRun(fs, order)))

\* the dialog was dismissed: select_folder returns False
SelectFolderCancel == Command("select_folder", Returned(Cur))

CloseFolder == Command("close_folder", Returned(St(<<>>, <<>>, fs)))

\* the bounds on split: the list stays within MaxItems and file names within MaxDepth
SplitAllowed(body) ==
    body.tool.id = "split" =>
        /\ Len(items) + (IF body.tool.mode = "cross" THEN 3 ELSE 1) <= MaxItems
        /\ Depth(body.current) < MaxDepth

\* the requests the UI can send for an item of the list: one of `tools` with
\* the caption and the prefix on display or an edit of them
SaveBodiesOf(cur, tools) ==
    { [current |-> cur, tool |-> tool, caption |-> c, caption_prefix |-> p] :
        tool \in tools,
        c \in CaptionInputs \cup {items[Lookup(items, cur) + 1].caption_str},
        p \in PrefixInputs \cup {caption_prefix} }

\* every request for an item of the list: a text edit sent with the view tool
\* may change the caption, the prefix or both; a request with another tool
\* leaves the prefix on display as it is and changes the caption only when its
\* concat tool names a path that is not in the list; and one request for a
\* path that is not in the list
SaveBodies ==
    UNION { SaveBodiesOf(cur, {[id |-> "view"]})
            \cup { body \in SaveBodiesOf(cur, Tools(cur) \ {[id |-> "view"]}) :
                     /\ body.caption_prefix = caption_prefix
                     /\ \/ body.caption = items[Lookup(items, cur) + 1].caption_str
                        \/ body.tool.id = "concat" /\ body.tool.image = StalePath } :
            cur \in ItemImages }
    \cup { [current |-> StalePath, tool |-> [id |-> "view"], caption |-> <<>>,
            caption_prefix |-> caption_prefix] }

Save(body) ==
    /\ SplitAllowed(body)
    /\ Command("save", SaveRun(Cur, body))

Escape == Command("escape_parentheses", EscapeRun(Cur))

Unescape == Command("unescape_parentheses", UnescapeRun(Cur))

DeduplicateTags == Command("deduplicate_tags", DeduplicateTagsRun(Cur))

ReplaceTags ==
    \E find \in FindInputs, replace \in ReplaceInputs :
        Command("replace_tags", ReplaceTagsRun(Cur, find, replace))

Pat_a_or_b == <<"^", "a", "|", "b", "$">>         \* "^a|b$"
Pat_a_any == <<"^", "a", "?", ",", ".", "*", "$">> \* "^a?,.*$"
Pat_a == <<"a">>                                  \* "a"
Pat_paren == <<"(", "a">>                         \* "(a"

\* the pattern lists the UI sends to remove_tags
PatternInputs == {<<Pat_a_or_b>>, <<Pat_a_any, Pat_a>>, <<Pat_paren>>}

RemoveTags(patterns) == Command("remove_tags", RemoveTagsRun(Cur, patterns))

AlignResolution ==
    \E target \in AlignTargets, box_tag \in BOOLEAN :
        Command("align_resolution",
                AlignResolutionRun(Cur, [width |-> target[1], height |-> target[2],
                                         box_tag |-> box_tag]))

Next ==
    \/ SelectFolder
    \/ SelectFolderCancel
    \/ CloseFolder
    \/ \E body \in SaveBodies : Save(body)
    \/ Escape
    \/ Unescape
    \/ DeduplicateTags
    \/ ReplaceTags
    \/ \E patterns \in PatternInputs : RemoveTags(patterns)
    \/ AlignResolution

Spec == Init /\ [][Next]_vars

-----------------------------------------------------------------------------
(* One batch operation on a freshly imported folder of two captioned images *)

TextAlphabet == {"a", ",", "(", "\\"}

Texts == SeqsUpTo(TextAlphabet, MaxText)

\* a.png with the sidecar a.txt and b.png with the sidecar b.txt
TextFolders ==
    { Folder({P("a", ".png"), P("b", ".png")},
             (P("a", ".txt") :> t1) @@ (P("b", ".txt") :> t2)) : t1, t2 \in Texts }

InitTexts ==
    /\ caption_prefix = <<>>
    /\ items = <<>>
    /\ fs \in TextFolders
    /\ last = NoCommand
    /\ commands = 0
    /\ s = <<>>
    /\ result = <<>>
    /\ called = FALSE

ImportTexts == last.op = "none" /\ SelectFolder

RemoveTagsOnce == last.op = "select_folder" /\ \E patterns \in PatternInputs : RemoveTags(patterns)

EscapeOnce == last.op = "select_folder" /\ Escape

NextTexts ==
    \/ ImportTexts
    \/ RemoveTagsOnce
    \/ EscapeOnce

SpecTexts == InitTexts /\ [][NextTexts]_vars

-----------------------------------------------------------------------------
(* The rectangle of the rect tool as a function under test *)

\* the box handed to draw.rectangle for one RectState on an image of this size
RectBox(size, start, end) ==
    LET l == Min(start[1], end[1])
        tp == Min(start[2], end[2])
        r == Max(start[1], end[1])
        b == Max(start[2], end[2])
    IN  <<Max(0, l), Max(0, tp), Min(size[1], r), Min(size[2], b)>>

\* the corner points the UI may send: on the image, on its edge or one pixel out
Points == (-1..(MaxSide + 1)) \X (-1..(MaxSide + 1))

RectArgs ==
    [size : (1..MaxSide) \X (1..MaxSide), start : Points, end : Points]

InitRect ==
    /\ s \in RectArgs
    /\ result = <<>>
    /\ called = FALSE
    /\ caption_prefix = <<>>
    /\ items = <<>>
    /\ fs = <<>>
    /\ last = NoCommand
    /\ commands = 0

CallRectBox ==
    /\ ~called
    /\ result' = RectBox(s.size, s.start, s.end)
    /\ called' = TRUE
    /\ UNCHANGED <<s, caption_prefix, items, fs, last, commands>>

NextRect == CallRectBox

SpecRect == InitRect /\ [][NextRect]_vars

-----------------------------------------------------------------------------
(* Prefix algebra: claims C6 and C7, checked under SpecPrefix *)

IsPrefixOfAll(t, sq) == \A i \in 1..Len(sq) : StartsWith(sq[i], t)

\* C6: get_common_prefix returns the longest sequence that is a prefix of every
\* input: the result is a prefix of each input, no longer sequence is a prefix of
\* all of them, no input gives the empty sequence and one input gives that input.
C6_LongestCommonPrefix ==
    called =>
        /\ IsPrefixOfAll(result, s)
        /\ s # <<>> =>
               \A k \in (Len(result) + 1)..Len(s[1]) : ~IsPrefixOfAll(SubSeq(s[1], 1, k), s)
        /\ s = <<>> => result = <<>>
        /\ Len(s) = 1 => result = s[1]

\* get_common_prefix has returned a proper, non-empty common prefix of inputs that differ
C6_Witness ==
    /\ called
    /\ Len(s) >= 2
    /\ result # <<>>
    /\ \A i \in 1..Len(s) : result # s[i]

\* C7: the result of get_common_prefix does not depend on the order of its
\* inputs: every permutation of the input list gives the same result.
C7_OrderIndependent ==
    called =>
        \A perm \in Permutations(1..Len(s)) :
            get_common_prefix([i \in 1..Len(s) |-> s[perm[i]]]) = result

\* get_common_prefix has returned for three inputs, no two of them equal,
\* that share a first element
C7_Witness ==
    /\ called
    /\ Len(s) = 3
    /\ \A i, j \in 1..3 : i # j => s[i] # s[j]
    /\ Len(result) = 1

-----------------------------------------------------------------------------
(* The session: claims C1 to C5 and C8 to C10, checked under Spec *)

MutatingOps ==
    {"save", "escape_parentheses", "unescape_parentheses", "deduplicate_tags",
     "replace_tags", "align_resolution"}

\* C1: in every reachable state no two entries of items have the same image path.
C1_UniqueImagePaths ==
    \A i, j \in 1..Len(items) : i # j => items[i].image # items[j].image

\* C2: after any mutating command has returned, the sidecar of every item holds
\* the shared prefix followed by the item's own text.
C2_SidecarsInSync ==
    (last.op \in MutatingOps /\ last.ok) =>
        \A i \in 1..Len(items) :
            /\ Exists(fs, items[i].caption)
            /\ fs[items[i].caption] = caption_prefix \o items[i].caption_str

\* C3: every entry of items refers to an image file and a sidecar file that exist.
C3_ItemFilesExist ==
    \A i \in 1..Len(items) : Exists(fs, items[i].image) /\ Exists(fs, items[i].caption)

\* a save of an item of the list with the given tool ids is taken
SaveStep(body, ids) ==
    /\ body.tool.id \in ids
    /\ Lookup(items, body.current) # -1
    /\ Save(body)

\* the list without the entries at the (1-based) positions in `drop`
RECURSIVE Without(_, _, _)
Without(sq, drop, i) ==
    IF i > Len(sq) THEN <<>>
    ELSE (IF i \in drop THEN <<>> ELSE <<sq[i]>>) \o Without(sq, drop, i + 1)

\* C4: a 2-way split of the item at index i turns a list of n items into one of
\* n + 1 with the two pieces at i and i + 1 in crop order, the source gone, the
\* other items in their order, and neither new path equal to the path of an item
\* that already existed.
C4_SplitTwoWay ==
    [][\A body \in SaveBodies :
          (SaveStep(body, {"split"}) /\ body.tool.mode \in {"horizontal", "vertical"}) =>
              LET i == Lookup(items, body.current) + 1
                  p1 == P(PieceStem(body.current.stem, 0), body.current.ext)
                  p2 == P(PieceStem(body.current.stem, 1), body.current.ext)
              IN  /\ Len(items') = Len(items) + 1
                  /\ items'[i].image = p1
                  /\ items'[i + 1].image = p2
                  /\ \A k \in 1..Len(items') : items'[k].image # body.current
                  /\ Without(items', {i, i + 1}, 1) = Without(items, {i}, 1)
                  /\ \A k \in 1..Len(items) : items[k].image \notin {p1, p2}]_vars

\* C5: a concat of A with a referenced item B of the list removes exactly B from
\* the list, keeps A under its own path with A's tags followed by those tags of
\* B that A did not have, and deletes B's image and sidecar.
C5_ConcatAbsorbs ==
    [][\A body \in SaveBodies :
          (SaveStep(body, {"concat"}) /\ Lookup(items, body.tool.image) # -1) =>
              LET a == Lookup(items, body.current) + 1
                  b == Lookup(items, body.tool.image) + 1
                  A == items[a]
                  B == items[b]
              IN  /\ Len(items') = Len(items) - 1
                  /\ Without(items', {Lookup(items', A.image) + 1}, 1) = Without(items, {a, b}, 1)
                  /\ Lookup(items', A.image) # -1
                  /\ StrippedTags(items'[Lookup(items', A.image) + 1].caption_str)
                         = MergeTags(StrippedTags(body.caption), StrippedTags(B.caption_str))
                  /\ ~Exists(fs', B.image)
                  /\ ~Exists(fs', B.caption)]_vars

\* C8: in every state in which a command can run, a save that sets the text of an item of the list to a
\* new text ends with that item's sidecar holding the shared prefix of the
\* call followed by the new text, with or without a change of the prefix in the
\* same call; a save with the item's current text and the current prefix writes
\* no file.  The tools of these saves are the ones that leave the list alone.
C8_SaveRoundTrip ==
    commands < MaxCommands =>
    \A cur \in ItemImages :
        \A body \in SaveBodiesOf(cur, {[id |-> "view"], [id |-> "brush"]}) :
            LET i == Lookup(items, cur) + 1
                r == SaveRun(Cur, body)
            IN  /\ body.caption # items[i].caption_str =>
                       /\ r.st.p = body.caption_prefix
                       /\ r.st.it[i].caption_str = body.caption
                       /\ Exists(r.st.fs, items[i].caption)
                       /\ r.st.fs[items[i].caption] = body.caption_prefix \o body.caption
                /\ (body.caption = items[i].caption_str
                        /\ body.caption_prefix = caption_prefix) =>
                       r.st.fs = fs

\* a save has set both a new prefix and a new text, and the sidecar holds them
C8_Witness ==
    /\ last.op = "save"
    /\ last.ok
    /\ caption_prefix = Txt_pre
    /\ \E i \in 1..Len(items) :
           /\ items[i].caption_str = Txt_bab
           /\ fs[items[i].caption] = Txt_pre \o Txt_bab

\* C9: deduplicate_tags run right after deduplicate_tags changes neither the
\* shared prefix, nor any item's own text, nor any file.
C9_DeduplicateIdempotent ==
    [][(last.op = "deduplicate_tags" /\ DeduplicateTags) => UNCHANGED session]_vars

\* deduplicate_tags has run twice in a row on an item whose tag "a" it dropped
\* because the prefix has it
C9_Witness ==
    /\ last.op = "deduplicate_tags"
    /\ last.chain = "twice"
    /\ caption_prefix = <<"a", ",", " ">>
    /\ \E i \in 1..Len(items) :
           /\ items[i].caption_str = <<"b">>
           /\ fs[items[i].caption] = <<"a", ",", " ", "b">>

\* a backslash directly followed by a parenthesis
HasEscapedParenthesis(t) ==
    \E i \in 1..(Len(t) - 1) : t[i] = "\\" /\ t[i + 1] \in {"(", ")"}

NothingEscaped ==
    /\ ~HasEscapedParenthesis(caption_prefix)
    /\ \A i \in 1..Len(items) : ~HasEscapedParenthesis(items[i].caption_str)

EscapeThenUnescape == UnescapeRun(EscapeRun(Cur).st).st

\* C10 as stated: in every state, escape_parentheses followed by
\* unescape_parentheses restores the shared prefix, every item's own text and
\* every sidecar file.
C10_UnescapeInvertsEscape == EscapeThenUnescape = Cur

\* C10 as amended: in every state where neither the shared prefix nor any
\* item's own text holds a backslash directly followed by a parenthesis,
\* escape_parentheses followed by unescape_parentheses restores the shared
\* prefix and every item's own text, and leaves the disk as rewriting every
\* item's sidecar with the prefix followed by the item's own text leaves it.
C10_UnescapeInvertsEscapeOfUnescaped ==
    NothingEscaped =>
        LET r == EscapeThenUnescape
        IN  /\ r.p = caption_prefix
            /\ r.it = items
            /\ r.fs = WriteAll(fs, items, caption_prefix, 1)

\* unescape_parentheses has run right after escape_parentheses on texts with
\* both parentheses, none of them escaped beforehand
C10_Witness ==
    /\ last.op = "unescape_parentheses"
    /\ last.chain = "inverse"
    /\ NothingEscaped
    /\ \E i \in 1..Len(items) :
           /\ In("(", items[i].caption_str)
           /\ In(")", items[i].caption_str)
           /\ fs[items[i].caption] = caption_prefix \o items[i].caption_str

\* some match of the regular expression covers the tag
fullmatch(pattern, tag) == Len(tag) \in Ends(ParseAlt(pattern, 1).re, tag, 0)

\* a pattern written as ^...$ matches a tag when the regular expression
\* matches the whole tag, any other pattern when it equals the tag
MatchesWhole(pattern, tag) ==
    IF Delimited(pattern) THEN fullmatch(pattern, tag) ELSE pattern = tag

Kept(tags, patterns) ==
    SelectSeq(tags, LAMBDA tag : ~\E k \in 1..Len(patterns) : MatchesWhole(patterns[k], tag))

\* C11: remove_tags leaves each item with exactly its tags that no pattern
\* matches, in their order, where a ^...$ pattern matches a tag only as a whole
\* and any other pattern only a tag equal to it.
C11_RemoveTagsExact ==
    [][\A patterns \in PatternInputs :
           RemoveTags(patterns) =>
               \A i \in 1..Len(items) :
                   items'[i].caption_str
                       = Join(Kept(StrippedTags(items[i].caption_str), patterns))]_vars

\* align_resolution with box_tag true has run to its end
AlignBoxed(target) ==
    LET r == AlignResolutionRun(Cur, [width |-> target[1], height |-> target[2],
                                      box_tag |-> TRUE])
    IN  r.ok /\ Command("align_resolution", r)

\* the tag the claim gives an image of this size aligned to target, <<>> for none
BoxTag(size, target) ==
    LET scaled == Scaled(size, target[1], target[2])
        dw == Abs(scaled[1] - target[1])
        dh == Abs(scaled[2] - target[2])
    IN  IF dw > dh THEN pillarboxed ELSE IF dh > dw THEN letterboxed ELSE <<>>

\* C12: align_resolution with box_tag true appends to an item's full tag list
\* (the tags of the shared prefix followed by its own text) the one tag its
\* scaled image calls for, pillarboxed or letterboxed, when that tag is absent,
\* and otherwise leaves the full tag list and the sidecar as they were.
C12_AlignAddsOneBoxTag ==
    [][\A target \in AlignTargets :
           AlignBoxed(target) =>
               \A i \in 1..Len(items) :
                   LET tags == StrippedTags(caption_prefix \o items[i].caption_str)
                       after == StrippedTags(caption_prefix' \o items'[i].caption_str)
                       tag == BoxTag(fs[items[i].image], target)
                   IN  IF tag # <<>> /\ ~In(tag, tags)
                       THEN after = Append(tags, tag)
                       ELSE after = tags /\ fs'[items[i].caption] = fs[items[i].caption]]_vars

\* the request names an image path that is not in the list
Stale(body) ==
    \/ Lookup(items, body.current) = -1
    \/ body.tool.id = "concat" /\ Lookup(items, body.tool.image) = -1

\* C13: a save whose current path, or whose concat tool's referenced path, is
\* not in the list ends with an error and changes neither the shared prefix,
\* nor the list, nor any item's text, nor any file.
C13_StaleLookupAborts ==
    [][\A body \in SaveBodies :
           (Stale(body) /\ Save(body)) => (~last'.ok /\ UNCHANGED session)]_vars

\* the tags of a text: its comma-separated fields, trimmed, the empty ones
\* (such as the one after a trailing separator) left out
Tags(t) == SelectSeq(StrippedTags(t), LAMBDA tag : tag # <<>>)

\* C14: after a folder import the tags of the shared prefix are the longest
\* leading run of whole tags common to all sidecars as read from disk, and the
\* prefix tags followed by an item's own tags are that item's tags on disk.
C14_ImportTagGranularity ==
    (last.op = "select_folder" /\ last.ok) =>
        /\ Tags(caption_prefix)
               = get_common_prefix([i \in 1..Len(items) |-> Tags(fs[items[i].caption])])
        /\ \A i \in 1..Len(items) :
               Tags(caption_prefix) \o Tags(items[i].caption_str) = Tags(fs[items[i].caption])

\* C15: the box the rect tool fills lies within the image and is not inverted:
\* 0 <= left <= right <= width and 0 <= top <= bottom <= height, wherever the
\* two corner points are.
C15_RectWithinImage ==
    called =>
        /\ 0 <= result[1] /\ result[1] <= result[3] /\ result[3] <= s.size[1]
        /\ 0 <= result[2] /\ result[2] <= result[4] /\ result[4] <= s.size[2]

\* C16: no two items of the list have the same sidecar path.
C16_UniqueSidecarPaths ==
    \A i, j \in 1..Len(items) : i # j => items[i].caption # items[j].caption

\* C17: the sidecar escape_parentheses writes for an item, the escaped prefix
\* followed by the escaped own text, is the escaping of the item's full text
\* (the prefix followed by the own text) taken as one string.
C17_EscapeAsOneString ==
    [][Escape =>
           \A i \in 1..Len(items) :
               fs'[items[i].caption] = EscapeText(caption_prefix \o items[i].caption_str)]_vars

====
